---- MODULE Spec2Model ----
(***************************************************************************)
(* StellarStream payment-streaming contract (contracts/src/lib.rs):       *)
(* the stream lifecycle (create, top-up, pause, unpause, withdraw,        *)
(* cancel, transfer_receiver), the vesting engine calculate_unlocked and  *)
(* the multi-approver proposal workflow, over one token.                  *)
(*                                                                         *)
(* Every entry point is one atomic transaction: a call that returns Err   *)
(* or panics leaves storage and balances untouched (the host reverts).    *)
(* Each handler is modelled by an operator X_result, the code's checks in  *)
(* the code's order giving the value the call returns ("Ok", an Error     *)
(* variant, or "Panic" for a host abort), and by an action X that applies *)
(* the handler's writes and transfers when X_result is "Ok".              *)
(***************************************************************************)
EXTENDS Integers, Sequences, FiniteSets, TLC

\* ---------------------------------------------------------------- bounds
MaxTime == 2             \* the ledger clock runs 0 .. MaxTime in SpecStream and SpecCustody
MaxStreams == 1          \* streams created in SpecStream
MaxCustodyStreams == 2   \* streams created in SpecCustody
MaxProposalTime == 3     \* the ledger clock runs 0 .. MaxProposalTime in SpecProposal
MaxProposalStreams == 3  \* streams created in SpecProposal
MaxProposals == 2        \* proposals created in SpecProposal
MaxRequired == 2         \* required_approvals of a proposal
MaxRefundTime == 1       \* the ledger clock runs 0 .. MaxRefundTime in SpecRefund
MaxRefundStreams == 3    \* streams created in SpecRefund
MaxRefundProposals == 1  \* proposals created in SpecRefund
MaxTotal == 9            \* total_amount a top-up may reach
InitialBalance == 10     \* each account's token balance at the start
TimeBits == 16           \* width the u64 arithmetic is scaled to

MaxReentryTime == 1      \* the ledger clock runs 0 .. MaxReentryTime in SpecReentry
MaxLiveTime == 3         \* the ledger clock runs 0 .. MaxLiveTime in SpecLive
MaxLiveStreams == 2      \* streams created in SpecLive

\* The stream SpecVesting follows.
MaxVestTime == 6         \* the ledger clock runs 0 .. MaxVestTime in SpecVesting
MaxVestAmount == 5       \* total_amount at creation
MaxVestStart == 1        \* start_time
MaxVestDuration == 3     \* end_time - start_time at creation

\* The inputs of the calls.
Amount == 5
SmallAmount == 2
Duration == 3
TopUpAmount == 2
Deadline == 2

\* u64 arithmetic is kept modular; the modulus is scaled to TimeBits bits
\* so that products stay inside the checker's integers.
U64Modulus == 2 ^ TimeBits

\* ------------------------------------------------------------- addresses
Addr == {"alice", "bob", "carol"}
NewReceivers == {"carol"}
Contract == "contract"
NoProposal == -1
NoAdmin == "none"
NoFrame == [op |-> "none"]
Role == {"Admin", "Pauser", "TreasuryManager"}

\* The contract's Error variants; a call that does not return one returns Ok or traps.
Error == {"InvalidTimeRange", "InvalidAmount", "InvalidApprovalThreshold",
          "ProposalExpired", "ProposalNotFound", "ProposalAlreadyExecuted",
          "AlreadyApproved", "StreamNotFound", "Unauthorized", "AlreadyCancelled",
          "StreamEnded", "StreamPaused", "InsufficientBalance", "StreamIsSoulbound"}

Linear == "Linear"
Exponential == "Exponential"

VARIABLES
    now,              \* env.ledger().timestamp()
    balance,          \* the token's balances, the contract's own included
    streams,          \* (STREAM_COUNT, id) -> Stream
    stream_count,     \* STREAM_COUNT
    proposals,        \* (PROPOSAL_COUNT, id) -> StreamProposal
    proposal_count,   \* PROPOSAL_COUNT
    paid_in,          \* history: tokens moved into custody for each stream
    paid_out,         \* history: tokens moved out of custody for each stream
    origin,           \* history: the proposal a stream was created from, or NoProposal
    pulled,           \* history: tokens execute_proposal pulled from the proposer, per proposal
    admin,            \* DataKey::Admin, or NoAdmin while unset
    roles,            \* the (principal, role) pairs whose DataKey::Role record is true
    receipts,         \* (RECEIPT, id) -> StreamReceipt (stream_id and owner)
    soulbound_streams, \* DataKey::SoulboundStreams
    frame             \* the entry point waiting inside a token transfer, or NoFrame

vars == <<now, balance, streams, stream_count, proposals, proposal_count,
          paid_in, paid_out, origin, pulled, admin, roles, receipts, soulbound_streams,
          frame>>

\* --------------------------------------------------------- token (interface)
\* token::Client::transfer panics when the payer's balance is insufficient.
CanTransfer(bal, from, amount) == amount >= 0 /\ bal[from] >= amount

Transfer(bal, from, to, amount) ==
    IF from = to THEN bal
    ELSE [bal EXCEPT ![from] = @ - amount, ![to] = @ + amount]

\* ------------------------------------------------------------ vesting engine
\* math::calculate_exponential_unlocked: Ok(value) inside the model's range.
calculate_exponential_unlocked(total_amount, start, end, current) ==
    IF current <= start THEN 0
    ELSE IF current >= end THEN total_amount
    ELSE (total_amount * (current - start) * (current - start))
            \div ((end - start) * (end - start))

\* u64 `a - b` in a build without overflow checks.
WrappingSub(a, b) == IF a >= b THEN a - b ELSE a - b + U64Modulus

\* u64 `a + b` in a build without overflow checks.
WrappingAdd(a, b) == (a + b) % U64Modulus

\* effective_time: frozen at paused_time while the stream is paused.
EffectiveTimeNegatedPause(stream, current_time) ==
    IF ~stream.is_paused THEN stream.paused_time ELSE current_time

EffectiveTime(stream, current_time) ==
    IF stream.is_paused THEN stream.paused_time ELSE current_time

\* `effective_time - stream.start_time` (u64) underflows: reached only past the
\* two early returns, with the stream paused before its start.
ElapsedUnderflows(stream, current_time) ==
    /\ current_time > stream.start_time
    /\ EffectiveTime(stream, current_time) < stream.end_time + stream.total_paused_duration
    /\ EffectiveTime(stream, current_time) < stream.start_time

\* calculate_unlocked does not return: the underflow panics when the build checks
\* overflow (overflow_checks = TRUE); in a build that does not, the subtraction wraps.
\* The build profile is not part of lib.rs, so both builds are modelled.
calculate_unlocked_panics(stream, current_time, overflow_checks) ==
    overflow_checks /\ ElapsedUnderflows(stream, current_time)

\* (the paused duration not subtracted)
EffectiveElapsedIgnoringPauses(stream, effective_time) ==
    WrappingSub(effective_time, stream.start_time)

\* effective_elapsed = elapsed - paused, both as i128
EffectiveElapsedSwapped(stream, effective_time) ==
    stream.total_paused_duration - WrappingSub(effective_time, stream.start_time)

EffectiveElapsed(stream, effective_time) ==
    WrappingSub(effective_time, stream.start_time) - stream.total_paused_duration

\* The value calculate_unlocked returns (when it returns).
calculate_unlocked(stream, current_time) ==
    IF current_time <= stream.start_time THEN 0
    ELSE LET effective_time == EffectiveTime(stream, current_time)
             adjusted_end == stream.end_time + stream.total_paused_duration
         IN  IF effective_time >= adjusted_end THEN stream.total_amount
             ELSE LET effective_elapsed == EffectiveElapsed(stream, effective_time)
                      duration == stream.end_time - stream.start_time
                  IN  IF effective_elapsed <= 0 THEN 0
                      ELSE IF stream.curve_type = Linear
                           THEN (stream.total_amount * effective_elapsed) \div duration
                           ELSE calculate_exponential_unlocked(
                                    stream.total_amount, stream.start_time, stream.end_time,
                                    WrappingAdd(stream.start_time, effective_elapsed % U64Modulus))

\* ------------------------------------------------------------------ state
\* The ids a call may name: every stored record and the first id not yet allocated.
StreamIds == 0 .. stream_count
ProposalIds == 0 .. proposal_count

Stored(stream_id) == stream_id \in DOMAIN streams
StoredProposal(proposal_id) == proposal_id \in DOMAIN proposals

Init ==
    /\ now = 0
    /\ balance = [a \in Addr \cup {Contract} |-> IF a = Contract THEN 0 ELSE InitialBalance]
    /\ streams = <<>>
    /\ stream_count = 0
    /\ proposals = <<>>
    /\ proposal_count = 0
    /\ paid_in = <<>>
    /\ paid_out = <<>>
    /\ origin = <<>>
    /\ pulled = <<>>
    /\ admin = NoAdmin
    /\ roles = {}
    /\ receipts = <<>>
    /\ soulbound_streams = <<>>
    /\ frame = NoFrame

\* A new Stream record as create_stream_with_milestones and execute_proposal build it.
NewStream(sender, receiver, total_amount, start_time, end_time, curve_type, is_soulbound) ==
    [sender |-> sender, receiver |-> receiver, total_amount |-> total_amount,
     start_time |-> start_time, end_time |-> end_time, withdrawn_amount |-> 0,
     cancelled |-> FALSE, is_paused |-> FALSE, paused_time |-> 0,
     total_paused_duration |-> 0, curve_type |-> curve_type,
     is_soulbound |-> is_soulbound]

\* Storing stream `stream_id` and bumping STREAM_COUNT, with the transfer into custody.
StoreNewStream(stream, from_proposal) ==
    /\ balance' = Transfer(balance, stream.sender, Contract, stream.total_amount)
    /\ streams' = streams @@ (stream_count :> stream)
    /\ stream_count' = stream_count + 1
    /\ paid_in' = paid_in @@ (stream_count :> stream.total_amount)
    /\ paid_out' = paid_out @@ (stream_count :> 0)
    /\ origin' = origin @@ (stream_count :> from_proposal)
    /\ receipts' = receipts @@ (stream_count :> [stream_id |-> stream_count,
                                                 owner |-> stream.receiver])   \* mint_receipt

\* ------------------------------------------------------------ create_stream
create_stream_result(sender, total_amount, start_time, end_time) ==
    IF start_time >= end_time THEN "InvalidTimeRange"
    ELSE IF total_amount <= 0 THEN "InvalidAmount"
    ELSE IF ~CanTransfer(balance, sender, total_amount) THEN "Panic"
    ELSE "Ok"

create_stream(sender, receiver, total_amount, start_time, end_time, curve_type, is_soulbound) ==
    IF create_stream_result(sender, total_amount, start_time, end_time) = "Ok"
    THEN /\ StoreNewStream(NewStream(sender, receiver, total_amount, start_time,
                                     end_time, curve_type, is_soulbound), NoProposal)
         /\ soulbound_streams' = IF is_soulbound THEN Append(soulbound_streams, stream_count)
                                  ELSE soulbound_streams
         /\ UNCHANGED <<now, proposals, proposal_count, pulled, admin, roles, frame>>
    ELSE UNCHANGED vars

\* -------------------------------------------------------- transfer_receiver
\* (the authorization check placed before the soulbound check)
transfer_receiver_result_auth_first(stream_id, caller) ==
    IF ~Stored(stream_id) THEN "StreamNotFound"
    ELSE IF streams[stream_id].sender # caller THEN "Unauthorized"
    ELSE IF streams[stream_id].is_soulbound THEN "StreamIsSoulbound"
    ELSE IF streams[stream_id].cancelled THEN "AlreadyCancelled"
    ELSE "Ok"

transfer_receiver_result(stream_id, caller) ==
    IF ~Stored(stream_id) THEN "StreamNotFound"
    ELSE IF streams[stream_id].is_soulbound THEN "StreamIsSoulbound"
    ELSE IF streams[stream_id].sender # caller THEN "Unauthorized"
    ELSE IF streams[stream_id].cancelled THEN "AlreadyCancelled"
    ELSE "Ok"

transfer_receiver(stream_id, caller, new_receiver) ==
    IF transfer_receiver_result(stream_id, caller) = "Ok"
    THEN /\ streams' = [streams EXCEPT ![stream_id].receiver = new_receiver]
         /\ UNCHANGED <<now, balance, stream_count, proposals,
                        proposal_count, paid_in, paid_out, origin, pulled,
                        admin, roles, receipts, soulbound_streams, frame>>
    ELSE UNCHANGED vars

\* ------------------------------------------------------------ top_up_stream
\* stream.total_amount / total_duration as i128
FlowRate(stream) == stream.total_amount \div (stream.end_time - stream.start_time)

top_up_stream_result(stream_id, sender, amount) ==
    IF amount <= 0 THEN "InvalidAmount"
    ELSE IF ~Stored(stream_id) THEN "StreamNotFound"
    ELSE IF streams[stream_id].sender # sender THEN "Unauthorized"
    ELSE IF streams[stream_id].cancelled THEN "AlreadyCancelled"
    ELSE IF now >= streams[stream_id].end_time THEN "StreamEnded"
    ELSE IF ~CanTransfer(balance, sender, amount) THEN "Panic"
    ELSE IF FlowRate(streams[stream_id]) = 0 THEN "Panic"   \* amount / flow_rate: division by zero
    ELSE "Ok"

\* (end_time left where it was)
ToppedUpKeepingEnd(stream, amount) ==
    [stream EXCEPT !.total_amount = stream.total_amount + amount]

\* The record top_up_stream writes back.
ToppedUp(stream, amount) ==
    [stream EXCEPT !.total_amount = stream.total_amount + amount,
                   !.end_time = stream.end_time + (amount \div FlowRate(stream))]

top_up_stream(stream_id, sender, amount) ==
    IF top_up_stream_result(stream_id, sender, amount) = "Ok"
    THEN /\ balance' = Transfer(balance, sender, Contract, amount)
         /\ streams' = [streams EXCEPT ![stream_id] = ToppedUp(streams[stream_id], amount)]
         /\ paid_in' = [paid_in EXCEPT ![stream_id] = @ + amount]
         /\ UNCHANGED <<now, stream_count, proposals, proposal_count,
                        paid_out, origin, pulled,
                        admin, roles, receipts, soulbound_streams, frame>>
    ELSE UNCHANGED vars

\* ------------------------------------------------------------- pause_stream
\* (without the check of stream.cancelled)
pause_stream_result_no_cancelled_check(stream_id, caller) ==
    IF ~Stored(stream_id) THEN "StreamNotFound"
    ELSE IF streams[stream_id].sender # caller THEN "Unauthorized"
    ELSE "Ok"

pause_stream_result(stream_id, caller) ==
    IF ~Stored(stream_id) THEN "StreamNotFound"
    ELSE IF streams[stream_id].sender # caller THEN "Unauthorized"
    ELSE IF streams[stream_id].cancelled THEN "AlreadyCancelled"
    ELSE "Ok"

\* (without the early return for a stream that is already paused)
pause_stream_overwriting(stream_id, caller) ==
    IF pause_stream_result(stream_id, caller) = "Ok"
    THEN /\ streams' = [streams EXCEPT ![stream_id].is_paused = TRUE,
                                       ![stream_id].paused_time = now]
         /\ UNCHANGED <<now, balance, stream_count, proposals,
                        proposal_count, paid_in, paid_out, origin, pulled,
                        admin, roles, receipts, soulbound_streams, frame>>
    ELSE UNCHANGED vars

pause_stream(stream_id, caller) ==
    IF pause_stream_result(stream_id, caller) = "Ok" /\ ~streams[stream_id].is_paused
    THEN /\ streams' = [streams EXCEPT ![stream_id].is_paused = TRUE,
                                       ![stream_id].paused_time = now]
         /\ UNCHANGED <<now, balance, stream_count, proposals,
                        proposal_count, paid_in, paid_out, origin, pulled,
                        admin, roles, receipts, soulbound_streams, frame>>
    ELSE UNCHANGED vars

\* ----------------------------------------------------------- unpause_stream
unpause_stream_result(stream_id, caller) ==
    IF ~Stored(stream_id) THEN "StreamNotFound"
    ELSE IF streams[stream_id].sender # caller THEN "Unauthorized"
    ELSE IF streams[stream_id].cancelled THEN "AlreadyCancelled"
    ELSE "Ok"

unpause_stream(stream_id, caller) ==
    IF unpause_stream_result(stream_id, caller) = "Ok" /\ streams[stream_id].is_paused
    THEN /\ streams' = [streams EXCEPT
                ![stream_id].total_paused_duration = @ + (now - streams[stream_id].paused_time),
                ![stream_id].is_paused = FALSE,
                ![stream_id].paused_time = 0]
         /\ UNCHANGED <<now, balance, stream_count, proposals,
                        proposal_count, paid_in, paid_out, origin, pulled,
                        admin, roles, receipts, soulbound_streams, frame>>
    ELSE UNCHANGED vars

\* ----------------------------------------------------------------- withdraw
\* unlocked - stream.withdrawn_amount
ToWithdraw(stream) == calculate_unlocked(stream, now) - stream.withdrawn_amount

\* (the sender accepted as well as the receiver)
withdraw_result_sender_allowed(stream_id, caller, overflow_checks) ==
    IF ~Stored(stream_id) THEN "StreamNotFound"
    ELSE IF streams[stream_id].receiver # caller /\ streams[stream_id].sender # caller
         THEN "Unauthorized"
    ELSE IF streams[stream_id].cancelled THEN "AlreadyCancelled"
    ELSE IF streams[stream_id].is_paused THEN "StreamPaused"
    ELSE IF calculate_unlocked_panics(streams[stream_id], now, overflow_checks) THEN "Panic"
    ELSE IF ToWithdraw(streams[stream_id]) <= 0 THEN "InsufficientBalance"
    ELSE IF ~CanTransfer(balance, Contract, ToWithdraw(streams[stream_id])) THEN "Panic"
    ELSE "Ok"

withdraw_result(stream_id, caller, overflow_checks) ==
    IF ~Stored(stream_id) THEN "StreamNotFound"
    ELSE IF streams[stream_id].receiver # caller THEN "Unauthorized"
    ELSE IF streams[stream_id].cancelled THEN "AlreadyCancelled"
    ELSE IF streams[stream_id].is_paused THEN "StreamPaused"
    ELSE IF calculate_unlocked_panics(streams[stream_id], now, overflow_checks) THEN "Panic"
    ELSE IF ToWithdraw(streams[stream_id]) <= 0 THEN "InsufficientBalance"
    ELSE IF ~CanTransfer(balance, Contract, ToWithdraw(streams[stream_id])) THEN "Panic"
    ELSE "Ok"

withdraw(stream_id, caller, overflow_checks) ==
    IF withdraw_result(stream_id, caller, overflow_checks) = "Ok"
    THEN LET stream == streams[stream_id]
             to_withdraw == ToWithdraw(stream)
         IN  /\ streams' = [streams EXCEPT ![stream_id].withdrawn_amount = @ + to_withdraw]
             /\ balance' = Transfer(balance, Contract, stream.receiver, to_withdraw)
             /\ paid_out' = [paid_out EXCEPT ![stream_id] = @ + to_withdraw]
             /\ UNCHANGED <<now, stream_count, proposals, proposal_count,
                            paid_in, origin, pulled,
                            admin, roles, receipts, soulbound_streams, frame>>
    ELSE UNCHANGED vars

\* ------------------------------------------------------------------- cancel
\* The amounts cancel hands to token_client.transfer: none when the computed share is <= 0.
CancelToReceiver(stream) ==
    LET to_receiver == calculate_unlocked(stream, now) - stream.withdrawn_amount
    IN  IF to_receiver > 0 THEN to_receiver ELSE 0

CancelToSender(stream) ==
    LET to_sender == stream.total_amount - calculate_unlocked(stream, now)
    IN  IF to_sender > 0 THEN to_sender ELSE 0

cancel_result(stream_id, caller, overflow_checks) ==
    IF ~Stored(stream_id) THEN "StreamNotFound"
    ELSE IF streams[stream_id].sender # caller /\ streams[stream_id].receiver # caller
         THEN "Unauthorized"
    ELSE IF streams[stream_id].cancelled THEN "AlreadyCancelled"
    ELSE IF calculate_unlocked_panics(streams[stream_id], now, overflow_checks) THEN "Panic"
    ELSE IF ~CanTransfer(balance, Contract,
                CancelToReceiver(streams[stream_id]) + CancelToSender(streams[stream_id]))
         THEN "Panic"
    ELSE "Ok"

cancel(stream_id, caller, overflow_checks) ==
    IF cancel_result(stream_id, caller, overflow_checks) = "Ok"
    THEN LET stream == streams[stream_id]
             to_receiver == CancelToReceiver(stream)
             to_sender == CancelToSender(stream)
         IN  /\ streams' = [streams EXCEPT
                    ![stream_id].cancelled = TRUE,
                    ![stream_id].withdrawn_amount = calculate_unlocked(stream, now)]
             /\ balance' = Transfer(Transfer(balance, Contract, stream.receiver, to_receiver),
                                    Contract, stream.sender, to_sender)
             /\ paid_out' = [paid_out EXCEPT ![stream_id] = @ + to_receiver + to_sender]
             /\ UNCHANGED <<now, stream_count, proposals, proposal_count,
                            paid_in, origin, pulled,
                            admin, roles, receipts, soulbound_streams, frame>>
    ELSE UNCHANGED vars

\* ---------------------------------------------------------- create_proposal
create_proposal_result(total_amount, start_time, end_time, required_approvals, deadline) ==
    IF start_time >= end_time THEN "InvalidTimeRange"
    ELSE IF total_amount <= 0 THEN "InvalidAmount"
    ELSE IF required_approvals = 0 THEN "InvalidApprovalThreshold"
    ELSE IF deadline <= now THEN "ProposalExpired"
    ELSE "Ok"

create_proposal(sender, receiver, total_amount, start_time, end_time, required_approvals, deadline) ==
    IF create_proposal_result(total_amount, start_time, end_time,
                              required_approvals, deadline) = "Ok"
    THEN /\ proposals' = proposals @@ (proposal_count :>
                [sender |-> sender, receiver |-> receiver, total_amount |-> total_amount,
                 start_time |-> start_time, end_time |-> end_time, approvers |-> <<>>,
                 required_approvals |-> required_approvals, deadline |-> deadline,
                 executed |-> FALSE])
         /\ proposal_count' = proposal_count + 1
         /\ pulled' = pulled @@ (proposal_count :> 0)
         /\ UNCHANGED <<now, balance, streams, stream_count,
                        paid_in, paid_out, origin,
                        admin, roles, receipts, soulbound_streams, frame>>
    ELSE UNCHANGED vars

\* --------------------------------------------------------- approve_proposal
Approvers(proposal) == {proposal.approvers[i] : i \in DOMAIN proposal.approvers}

\* (with > in place of >=)
ReachesThresholdStrict(proposal) == Len(proposal.approvers) + 1 > proposal.required_approvals

\* approval_count >= proposal.required_approvals, after the push_back
ReachesThreshold(proposal) == Len(proposal.approvers) + 1 >= proposal.required_approvals

\* The rest of approve_proposal once the proposal is found open and in time.
ApprovalOutcome(proposal_id, approver, check_duplicates) ==
    IF check_duplicates /\ approver \in Approvers(proposals[proposal_id])
    THEN "AlreadyApproved"
    ELSE IF /\ ReachesThreshold(proposals[proposal_id])
            /\ ~CanTransfer(balance, proposals[proposal_id].sender,
                            proposals[proposal_id].total_amount)
         THEN "Panic"    \* execute_proposal's transfer fails: the transaction is reverted
    ELSE "Ok"

\* (without the loop over proposal.approvers)
approve_proposal_result_no_duplicate_check(proposal_id, approver) ==
    IF ~StoredProposal(proposal_id) THEN "ProposalNotFound"
    ELSE IF proposals[proposal_id].executed THEN "ProposalAlreadyExecuted"
    ELSE IF now > proposals[proposal_id].deadline THEN "ProposalExpired"
    ELSE ApprovalOutcome(proposal_id, approver, FALSE)

\* (without the check of the deadline)
approve_proposal_result_no_deadline_check(proposal_id, approver) ==
    IF ~StoredProposal(proposal_id) THEN "ProposalNotFound"
    ELSE IF proposals[proposal_id].executed THEN "ProposalAlreadyExecuted"
    ELSE ApprovalOutcome(proposal_id, approver, TRUE)

\* (without the check of proposal.executed)
approve_proposal_result_no_executed_check(proposal_id, approver) ==
    IF ~StoredProposal(proposal_id) THEN "ProposalNotFound"
    ELSE IF now > proposals[proposal_id].deadline THEN "ProposalExpired"
    ELSE ApprovalOutcome(proposal_id, approver, TRUE)

approve_proposal_result(proposal_id, approver) ==
    IF ~StoredProposal(proposal_id) THEN "ProposalNotFound"
    ELSE IF proposals[proposal_id].executed THEN "ProposalAlreadyExecuted"
    ELSE IF now > proposals[proposal_id].deadline THEN "ProposalExpired"
    ELSE ApprovalOutcome(proposal_id, approver, TRUE)

\* execute_proposal: pull the funds from the proposer and store the stream.
execute_proposal(proposal_id, proposal) ==
    /\ StoreNewStream(NewStream(proposal.sender, proposal.receiver, proposal.total_amount,
                                proposal.start_time, proposal.end_time, Linear, FALSE),
                      proposal_id)
    /\ pulled' = [pulled EXCEPT ![proposal_id] = @ + proposal.total_amount]

\* (the writes made before execute_proposal kept when its transfer fails)
approve_proposal_without_revert(proposal_id, approver) ==
    IF approve_proposal_result(proposal_id, approver) = "Panic"
    THEN /\ proposals' = [proposals EXCEPT
                ![proposal_id].approvers = Append(@, approver),
                ![proposal_id].executed = TRUE]
         /\ UNCHANGED <<now, balance, streams, stream_count,
                        proposal_count, paid_in, paid_out, origin, pulled,
                        admin, roles, receipts, soulbound_streams, frame>>
    ELSE UNCHANGED vars

approve_proposal(proposal_id, approver) ==
    IF approve_proposal_result(proposal_id, approver) = "Ok"
    THEN LET proposal == proposals[proposal_id]
         IN  IF ReachesThreshold(proposal)
             THEN /\ proposals' = [proposals EXCEPT
                        ![proposal_id].approvers = Append(@, approver),
                        ![proposal_id].executed = TRUE]
                  /\ execute_proposal(proposal_id, proposal)
                  /\ UNCHANGED <<now, proposal_count, admin, roles, soulbound_streams, frame>>
             ELSE /\ proposals' = [proposals EXCEPT
                        ![proposal_id].approvers = Append(@, approver)]
                  /\ UNCHANGED <<now, balance, streams, stream_count,
                                 proposal_count, paid_in, paid_out, origin, pulled,
                                 admin, roles, receipts, soulbound_streams, frame>>
    ELSE UNCHANGED vars

\* ------------------------------------------- entry points split at the transfer
\* The token is another contract: token_client.transfer may call back into this
\* contract before it returns. X_enter is entry point X up to and including its
\* (first) transfer, with X's locals kept in frame; X_return is what X does once
\* the transfer has returned. Calls made in between act on storage as usual.
InCall == frame.op # "none"

\* What a trap in X_return rolls back to.
Saved == [streams |-> streams, balance |-> balance, paid_in |-> paid_in, paid_out |-> paid_out]

\* top_up_stream: load, checks, transfer | flow rate, new total and end, store.
top_up_stream_enter(stream_id, sender, amount) ==
    /\ ~InCall
    /\ top_up_stream_result(stream_id, sender, amount) = "Ok"
    /\ balance' = Transfer(balance, sender, Contract, amount)
    /\ paid_in' = [paid_in EXCEPT ![stream_id] = @ + amount]
    /\ frame' = [op |-> "top_up_stream", stream_id |-> stream_id,
                 stream |-> streams[stream_id], amount |-> amount]
    /\ UNCHANGED <<now, streams, stream_count, proposals, proposal_count, paid_out,
                   origin, pulled, admin, roles, receipts, soulbound_streams>>

top_up_stream_return ==
    /\ frame.op = "top_up_stream"
    /\ streams' = [streams EXCEPT ![frame.stream_id] = ToppedUp(frame.stream, frame.amount)]
    /\ frame' = NoFrame
    /\ UNCHANGED <<now, balance, stream_count, proposals, proposal_count, paid_in, paid_out,
                   origin, pulled, admin, roles, receipts, soulbound_streams>>

\* withdraw: load, checks, store | transfer | nothing more.
withdraw_enter(stream_id, caller, overflow_checks) ==
    /\ ~InCall
    /\ withdraw_result(stream_id, caller, overflow_checks) = "Ok"
    /\ streams' = [streams EXCEPT
            ![stream_id].withdrawn_amount = @ + ToWithdraw(streams[stream_id])]
    /\ balance' = Transfer(balance, Contract, streams[stream_id].receiver,
                           ToWithdraw(streams[stream_id]))
    /\ paid_out' = [paid_out EXCEPT ![stream_id] = @ + ToWithdraw(streams[stream_id])]
    /\ frame' = [op |-> "withdraw", stream_id |-> stream_id]
    /\ UNCHANGED <<now, stream_count, proposals, proposal_count, paid_in,
                   origin, pulled, admin, roles, receipts, soulbound_streams>>

withdraw_return ==
    /\ frame.op = "withdraw"
    /\ frame' = NoFrame
    /\ UNCHANGED <<now, balance, streams, stream_count, proposals, proposal_count, paid_in,
                   paid_out, origin, pulled, admin, roles, receipts, soulbound_streams>>

\* cancel: load, checks, store | transfer to the receiver | transfer to the sender.
cancel_enter(stream_id, caller, overflow_checks) ==
    /\ ~InCall
    /\ cancel_result(stream_id, caller, overflow_checks) = "Ok"
    /\ CancelToReceiver(streams[stream_id]) > 0
    /\ streams' = [streams EXCEPT
            ![stream_id].cancelled = TRUE,
            ![stream_id].withdrawn_amount = calculate_unlocked(streams[stream_id], now)]
    /\ balance' = Transfer(balance, Contract, streams[stream_id].receiver,
                           CancelToReceiver(streams[stream_id]))
    /\ paid_out' = [paid_out EXCEPT ![stream_id] = @ + CancelToReceiver(streams[stream_id])]
    /\ frame' = [op |-> "cancel", stream_id |-> stream_id, stream |-> streams[stream_id],
                 to_sender |-> CancelToSender(streams[stream_id]), saved |-> Saved]
    /\ UNCHANGED <<now, stream_count, proposals, proposal_count, paid_in,
                   origin, pulled, admin, roles, receipts, soulbound_streams>>

cancel_return ==
    /\ frame.op = "cancel"
    /\ IF CanTransfer(balance, Contract, frame.to_sender)
       THEN /\ balance' = Transfer(balance, Contract, frame.stream.sender, frame.to_sender)
            /\ paid_out' = [paid_out EXCEPT ![frame.stream_id] = @ + frame.to_sender]
            /\ UNCHANGED <<streams, paid_in>>
       ELSE /\ balance' = frame.saved.balance      \* the transfer traps: all is rolled back
            /\ paid_out' = frame.saved.paid_out
            /\ streams' = frame.saved.streams
            /\ paid_in' = frame.saved.paid_in
    /\ frame' = NoFrame
    /\ UNCHANGED <<now, stream_count, proposals, proposal_count,
                   origin, pulled, admin, roles, receipts, soulbound_streams>>

\* --------------------------------------------------------------- roles
\* initialize: no check that an admin is already stored.
initialize(new_admin) ==
    /\ admin' = new_admin
    /\ roles' = roles \cup {<<new_admin, role>> : role \in Role}
    /\ UNCHANGED <<now, balance, streams, stream_count, proposals, proposal_count,
                   paid_in, paid_out, origin, pulled, receipts, soulbound_streams, frame>>

\* check_role
HasRole(address, role) == <<address, role>> \in roles

\* grant_role and revoke_role panic ("Unauthorized") unless the caller holds Admin.
role_call_result(caller) == IF HasRole(caller, "Admin") THEN "Ok" ELSE "Panic"

grant_role(caller, target, role) ==
    IF role_call_result(caller) = "Ok"
    THEN /\ roles' = roles \cup {<<target, role>>}
         /\ UNCHANGED <<now, balance, streams, stream_count, proposals, proposal_count,
                        paid_in, paid_out, origin, pulled, admin, receipts, soulbound_streams, frame>>
    ELSE UNCHANGED vars

revoke_role(caller, target, role) ==
    IF role_call_result(caller) = "Ok"
    THEN /\ roles' = roles \ {<<target, role>>}
         /\ UNCHANGED <<now, balance, streams, stream_count, proposals, proposal_count,
                        paid_in, paid_out, origin, pulled, admin, receipts, soulbound_streams, frame>>
    ELSE UNCHANGED vars

\* The ledger clock advances between transactions.
Tick(limit) ==
    /\ now < limit
    /\ now' = now + 1
    /\ UNCHANGED <<balance, streams, stream_count, proposals,
                   proposal_count, paid_in, paid_out, origin, pulled,
                   admin, roles, receipts, soulbound_streams, frame>>

\* The calls on streams, by every caller, under either build profile.
StreamCalls ==
    \E stream_id \in StreamIds, caller \in Addr :
        \/ pause_stream(stream_id, caller)
        \/ unpause_stream(stream_id, caller)
        \/ \E overflow_checks \in BOOLEAN : withdraw(stream_id, caller, overflow_checks)
        \/ \E overflow_checks \in BOOLEAN : cancel(stream_id, caller, overflow_checks)
        \/ \E new_receiver \in NewReceivers : transfer_receiver(stream_id, caller, new_receiver)
        \/ \E amount \in {0, TopUpAmount} :
              /\ Stored(stream_id) => streams[stream_id].total_amount + amount <= MaxTotal
              /\ top_up_stream(stream_id, caller, amount)

\* One stream at a time, created with either curve, soulbound or not.
StreamNext ==
    \/ Tick(MaxTime)
    \/ StreamCalls
    \/ \E total_amount \in {0, SmallAmount, Amount}, duration \in {0, Duration},
          curve_type \in {Linear, Exponential}, is_soulbound \in BOOLEAN :
          /\ stream_count < MaxStreams
          /\ create_stream("alice", "bob", total_amount, 0, duration, curve_type, is_soulbound)

SpecStream == Init /\ [][StreamNext]_vars

\* The life of one stream: the contract right after its first call,
\* create_stream by alice for bob at time 0, with any amount, start, duration and curve.
InitVesting ==
    \E total_amount \in 1 .. MaxVestAmount, start_time \in 0 .. MaxVestStart,
       duration \in 1 .. MaxVestDuration, curve_type \in {Linear, Exponential} :
        /\ total_amount <= InitialBalance
        /\ now = 0
        /\ balance = [a \in Addr \cup {Contract} |->
                        IF a = Contract THEN total_amount
                        ELSE IF a = "alice" THEN InitialBalance - total_amount
                        ELSE InitialBalance]
        /\ streams = (0 :> NewStream("alice", "bob", total_amount, start_time,
                                     start_time + duration, curve_type, FALSE))
        /\ stream_count = 1
        /\ proposals = <<>>
        /\ proposal_count = 0
        /\ paid_in = (0 :> total_amount)
        /\ paid_out = (0 :> 0)
        /\ origin = (0 :> NoProposal)
        /\ pulled = <<>>
        /\ admin = NoAdmin
        /\ roles = {}
        /\ receipts = (0 :> [stream_id |-> 0, owner |-> "bob"])
        /\ soulbound_streams = <<>>
        /\ frame = NoFrame

VestingNext ==
    \/ Tick(MaxVestTime)
    \/ StreamCalls

SpecVesting == InitVesting /\ [][VestingNext]_vars

\* Several streams sharing the contract's balance, from two senders.
CustodyNext ==
    \/ Tick(MaxTime)
    \/ StreamCalls
    \/ \E sender \in {"alice", "bob"} :
          /\ stream_count < MaxCustodyStreams
          /\ create_stream(sender, IF sender = "alice" THEN "bob" ELSE "carol",
                           Amount, 0, Duration, Linear, FALSE)

SpecCustody == Init /\ [][CustodyNext]_vars

\* The receiver of a stream calls withdraw.
ReceiverWithdraws(stream_id) ==
    /\ Stored(stream_id)
    /\ \E overflow_checks \in BOOLEAN :
          withdraw(stream_id, streams[stream_id].receiver, overflow_checks)

\* Streams sharing the contract's balance, with the ledger clock advancing as
\* long as it can and every receiver's withdraw taken if it stays possible.
LiveNext ==
    \/ Tick(MaxLiveTime)
    \/ StreamCalls
    \/ \E sender \in {"alice", "bob"} :
          /\ stream_count < MaxLiveStreams
          /\ create_stream(sender, IF sender = "alice" THEN "bob" ELSE "carol",
                           Amount, 0, Duration, Linear, FALSE)

SpecLive ==
    /\ Init
    /\ [][LiveNext]_vars
    /\ WF_vars(Tick(MaxLiveTime))
    /\ \A stream_id \in 0 .. MaxLiveStreams - 1 : WF_vars(ReceiverWithdraws(stream_id))

\* The proposal workflow, with streams created directly beside it.
ProposalNext ==
    \/ Tick(MaxProposalTime)
    \/ \E total_amount \in {0, Amount}, duration \in {0, Duration},
          required_approvals \in 0 .. MaxRequired, deadline \in {0, Deadline} :
          /\ proposal_count < MaxProposals
          /\ create_proposal("alice", "bob", total_amount, 0, duration,
                             required_approvals, deadline)
    \/ \E proposal_id \in ProposalIds, approver \in Addr :
          /\ stream_count < MaxProposalStreams
          /\ approve_proposal(proposal_id, approver)
    \/ /\ stream_count < MaxProposalStreams
       /\ create_stream("alice", "bob", Amount, 0, Duration, Linear, FALSE)

SpecProposal == Init /\ [][ProposalNext]_vars

\* A proposal whose proposer spends on direct streams and is refunded by
\* cancelling them, so that an execution can fail for lack of funds and succeed later.
RefundNext ==
    \/ Tick(MaxRefundTime)
    \/ \E required_approvals \in 1 .. MaxRequired :
          /\ proposal_count < MaxRefundProposals
          /\ create_proposal("alice", "bob", Amount, 0, Duration, required_approvals, Deadline)
    \/ \E proposal_id \in ProposalIds, approver \in Addr :
          /\ stream_count < MaxRefundStreams
          /\ approve_proposal(proposal_id, approver)
    \/ /\ stream_count < MaxRefundStreams
       /\ create_stream("alice", "bob", Amount, 0, Duration, Linear, FALSE)
    \/ \E stream_id \in StreamIds, overflow_checks \in BOOLEAN :
          cancel(stream_id, "alice", overflow_checks)

SpecRefund == Init /\ [][RefundNext]_vars

\* One stream whose token calls back: every stream entry point may run while
\* top_up_stream, withdraw or cancel waits in its transfer; the clock stands still
\* inside a transaction.
ReentryNext ==
    \/ ~InCall /\ Tick(MaxReentryTime)
    \/ StreamCalls
    \/ \E stream_id \in StreamIds, caller \in Addr :
          \/ /\ Stored(stream_id) => streams[stream_id].total_amount + TopUpAmount <= MaxTotal
             /\ top_up_stream_enter(stream_id, caller, TopUpAmount)
          \/ \E overflow_checks \in BOOLEAN : withdraw_enter(stream_id, caller, overflow_checks)
          \/ \E overflow_checks \in BOOLEAN : cancel_enter(stream_id, caller, overflow_checks)
    \/ top_up_stream_return
    \/ withdraw_return
    \/ cancel_return

SpecReentry == InitVesting /\ [][ReentryNext]_vars

\* Role management: initialize, grant_role and revoke_role by every address.
RolesNext ==
    \/ \E new_admin \in Addr : initialize(new_admin)
    \/ \E caller \in Addr, target \in Addr, role \in Role : grant_role(caller, target, role)
    \/ \E caller \in Addr, target \in Addr, role \in Role : revoke_role(caller, target, role)

SpecRoles == Init /\ [][RolesNext]_vars

\* ------------------------------------------------------------------ claims
Builds == BOOLEAN

\* C1: for every stream, the tokens transferred out of custody for it (withdrawals
\* and both cancel payouts) never exceed the tokens paid into custody for it
\* (the creation amount and the top-ups).
C1_PaidOutWithinPaidIn ==
    \A id \in DOMAIN streams : paid_out[id] <= paid_in[id]

\* C2: every stored stream has total_amount > 0 and, at the current ledger time,
\* withdrawn_amount <= unlocked(stream, now) <= total_amount, whichever way the
\* contract was built.
C2_UnlockedBounds ==
    \A id \in DOMAIN streams, overflow_checks \in Builds :
        /\ streams[id].total_amount > 0
        /\ ~calculate_unlocked_panics(streams[id], now, overflow_checks)
        /\ streams[id].withdrawn_amount <= calculate_unlocked(streams[id], now)
        /\ calculate_unlocked(streams[id], now) <= streams[id].total_amount

\* A step in which stream `id` becomes cancelled.
CancelStep(id) == ~streams[id].cancelled /\ streams'[id].cancelled

\* C3: a successful cancel transfers, to receiver and sender together, exactly
\* total_amount minus the amount withdrawn before the cancel.
C3_CancelPaysRemainder ==
    [][\A id \in DOMAIN streams :
          CancelStep(id) =>
              paid_out'[id] - paid_out[id]
                  = streams[id].total_amount - streams[id].withdrawn_amount]_vars

\* The times at which a stream's unlocked amount can still change.
Horizon(stream) == 0 .. (stream.end_time + stream.total_paused_duration + 1)

\* C4: for a fixed stream record, the amount calculate_unlocked returns is
\* non-decreasing in the time it is asked at (for every two times at which it
\* returns, under either build).
C4_UnlockedMonotone ==
    \A id \in DOMAIN streams, overflow_checks \in Builds :
        \A now1 \in Horizon(streams[id]), now2 \in Horizon(streams[id]) :
            (/\ now1 <= now2
             /\ ~calculate_unlocked_panics(streams[id], now1, overflow_checks)
             /\ ~calculate_unlocked_panics(streams[id], now2, overflow_checks))
            => calculate_unlocked(streams[id], now1) <= calculate_unlocked(streams[id], now2)

\* C4 witness: a Linear stream that was paused and resumed and has been partly
\* withdrawn, so that the record's unlocked amount takes several values over time.
C4_Witness ==
    \E id \in DOMAIN streams :
        /\ streams[id].total_paused_duration > 0
        /\ ~streams[id].is_paused
        /\ streams[id].withdrawn_amount > 0
        /\ streams[id].withdrawn_amount < streams[id].total_amount
        /\ streams[id].curve_type = Linear
        /\ calculate_unlocked(streams[id], streams[id].start_time + 1) = 0
        /\ calculate_unlocked(streams[id], now) > 0

\* The time at which a stream is fully vested: end_time + total_paused_duration.
AdjustedEnd(stream) == stream.end_time + stream.total_paused_duration

\* C5 (as stated): for any stream and any curve,
\* unlocked(stream, end_time + total_paused_duration) = total_amount.
C5_FullAtAdjustedEnd ==
    \A id \in DOMAIN streams, overflow_checks \in Builds :
        /\ ~calculate_unlocked_panics(streams[id], AdjustedEnd(streams[id]), overflow_checks)
        /\ calculate_unlocked(streams[id], AdjustedEnd(streams[id])) = streams[id].total_amount

\* C5 (amended): for any stream that is not paused, and any curve,
\* unlocked(stream, end_time + total_paused_duration) = total_amount.
C5_FullAtAdjustedEndUnpaused ==
    \A id \in DOMAIN streams, overflow_checks \in Builds :
        ~streams[id].is_paused
        => /\ ~calculate_unlocked_panics(streams[id], AdjustedEnd(streams[id]), overflow_checks)
           /\ calculate_unlocked(streams[id], AdjustedEnd(streams[id]))
                = streams[id].total_amount

\* C5 witness: the ledger time is exactly end_time + total_paused_duration of an
\* Exponential stream that was paused for a while and runs again.
C5_Witness ==
    \E id \in DOMAIN streams :
        /\ streams[id].curve_type = Exponential
        /\ ~streams[id].is_paused
        /\ streams[id].total_paused_duration > 0
        /\ ~streams[id].cancelled
        /\ now = AdjustedEnd(streams[id])

\* What is recorded for stream `id`: its record and the tokens moved for it.
StreamFacts(id) == <<streams[id], paid_in[id], paid_out[id]>>

\* C6: once a stream is cancelled, no step (a call of top_up_stream, pause_stream,
\* unpause_stream, withdraw, cancel or transfer_receiver by any caller, or the
\* passage of time) changes a field of its record or moves tokens for it; in
\* particular cancelled stays true.
C6_CancelledIsTerminal ==
    [][\A id \in DOMAIN streams :
          streams[id].cancelled => StreamFacts(id)' = StreamFacts(id)]_vars

\* C6 witness: a stream cancelled while paused, part withdrawn, with the sender
\* still holding tokens for a top-up and the clock short of end_time.
C6_Witness ==
    \E id \in DOMAIN streams :
        /\ streams[id].cancelled
        /\ streams[id].is_paused
        /\ streams[id].withdrawn_amount > 0
        /\ now < streams[id].end_time
        /\ balance[streams[id].sender] >= TopUpAmount

\* C7: on a soulbound stream transfer_receiver returns StreamIsSoulbound to every
\* caller in every state, and no step changes the stream's receiver or its
\* is_soulbound flag.
C7_SoulboundReceiverFixed ==
    /\ [](\A id \in DOMAIN streams, caller \in Addr :
            streams[id].is_soulbound
            => transfer_receiver_result(id, caller) = "StreamIsSoulbound")
    /\ [][\A id \in DOMAIN streams :
            /\ streams'[id].is_soulbound = streams[id].is_soulbound
            /\ streams[id].is_soulbound => streams'[id].receiver = streams[id].receiver]_vars

\* C7 witness: a soulbound stream that is cancelled, so that the sender's call
\* would otherwise be answered AlreadyCancelled and a third party's Unauthorized.
C7_Witness ==
    \E id \in DOMAIN streams :
        /\ streams[id].is_soulbound
        /\ streams[id].cancelled
        /\ streams[id].receiver = "bob"

NoDuplicates(seq) == \A i, j \in DOMAIN seq : i # j => seq[i] # seq[j]

\* C8 (as stated): no proposal lists an approver twice, and approve_proposal by
\* an address already among the approvers returns AlreadyApproved.
C8_DuplicateApprovalRejected ==
    \A pid \in DOMAIN proposals :
        /\ NoDuplicates(proposals[pid].approvers)
        /\ \A approver \in Approvers(proposals[pid]) :
              approve_proposal_result(pid, approver) = "AlreadyApproved"

\* C8 (amended): no proposal lists an approver twice, and approve_proposal by an
\* address already among the approvers fails: with AlreadyApproved while the
\* proposal is not executed and its deadline has not passed, with
\* ProposalAlreadyExecuted once it is executed, and otherwise with ProposalExpired.
C8_DuplicateApprovalFails ==
    \A pid \in DOMAIN proposals :
        /\ NoDuplicates(proposals[pid].approvers)
        /\ \A approver \in Approvers(proposals[pid]) :
              approve_proposal_result(pid, approver) =
                  IF proposals[pid].executed THEN "ProposalAlreadyExecuted"
                  ELSE IF now > proposals[pid].deadline THEN "ProposalExpired"
                  ELSE "AlreadyApproved"

\* C8 witness: an open proposal, in time, that one address has approved and that
\* the same address's next approval would execute if it were counted.
C8_Witness ==
    \E pid \in DOMAIN proposals :
        /\ ~proposals[pid].executed
        /\ now <= proposals[pid].deadline
        /\ Len(proposals[pid].approvers) = 1
        /\ proposals[pid].required_approvals = 2
        /\ CanTransfer(balance, proposals[pid].sender, proposals[pid].total_amount)

\* The streams created from proposal `pid`.
StreamsOf(pid) == {id \in DOMAIN streams : origin[id] = pid}

\* C9: after a proposal's deadline, approve_proposal on it while approvals are
\* still missing returns ProposalExpired to every approver, and no step taken
\* after the deadline changes the proposal, executes it or creates a stream from it.
C9_NoApprovalAfterDeadline ==
    /\ [](\A pid \in DOMAIN proposals, approver \in Addr :
            (/\ now > proposals[pid].deadline
             /\ Len(proposals[pid].approvers) < proposals[pid].required_approvals)
            => approve_proposal_result(pid, approver) = "ProposalExpired")
    /\ [][\A pid \in DOMAIN proposals :
            now > proposals[pid].deadline
            => /\ proposals'[pid] = proposals[pid]
               /\ StreamsOf(pid)' = StreamsOf(pid)
               /\ pulled'[pid] = pulled[pid]]_vars

\* C9 witness: past its deadline, a proposal one approval short of its threshold
\* whose proposer could still fund it.
C9_Witness ==
    \E pid \in DOMAIN proposals :
        /\ now > proposals[pid].deadline
        /\ ~proposals[pid].executed
        /\ Len(proposals[pid].approvers) + 1 = proposals[pid].required_approvals
        /\ CanTransfer(balance, proposals[pid].sender, proposals[pid].total_amount)
        /\ stream_count < MaxProposalStreams

\* C10: an executed proposal stays executed, approve_proposal on it returns
\* ProposalAlreadyExecuted to every approver and its approvers never change; every
\* proposal has created at most one stream and pulled total_amount at most once.
C10_ExecutedOnce ==
    /\ [](\A pid \in DOMAIN proposals :
            /\ proposals[pid].executed
               => \A approver \in Addr :
                     approve_proposal_result(pid, approver) = "ProposalAlreadyExecuted"
            /\ Cardinality(StreamsOf(pid)) <= 1
            /\ pulled[pid] \in {0, proposals[pid].total_amount})
    /\ [][\A pid \in DOMAIN proposals :
            proposals[pid].executed
            => /\ proposals'[pid].executed
               /\ proposals'[pid].approvers = proposals[pid].approvers
               /\ StreamsOf(pid)' = StreamsOf(pid)
               /\ pulled'[pid] = pulled[pid]]_vars

\* C10 witness: an executed proposal, still before its deadline, with an address
\* that has not approved it, a proposer able to pay again and room for a stream.
C10_Witness ==
    \E pid \in DOMAIN proposals :
        /\ proposals[pid].executed
        /\ now <= proposals[pid].deadline
        /\ Cardinality(StreamsOf(pid)) = 1
        /\ Approvers(proposals[pid]) # Addr
        /\ CanTransfer(balance, proposals[pid].sender, proposals[pid].total_amount)
        /\ stream_count < MaxProposalStreams

\* The stream execute_proposal stores for `proposal`.
ProposalStream(proposal) ==
    NewStream(proposal.sender, proposal.receiver, proposal.total_amount,
              proposal.start_time, proposal.end_time, Linear, FALSE)

\* C11: in every state a proposal is executed iff it has at least
\* required_approvals approvers, and iff exactly one stream created from it exists
\* (a Linear, non-soulbound stream of the proposal's sender and start_time). An
\* approval that leaves the count below the threshold creates no stream and moves
\* no funds; the step that sets executed is the step that stores the stream, with
\* the proposal's sender, receiver, amount and times, not paused, nothing
\* withdrawn, mints its receipt and pulls total_amount from the proposer; no other
\* step creates a stream for the proposal.
C11_ExecutedWithStream ==
    /\ [](\A pid \in DOMAIN proposals :
            /\ proposals[pid].executed
                  <=> Len(proposals[pid].approvers) >= proposals[pid].required_approvals
            /\ proposals[pid].executed <=> Cardinality(StreamsOf(pid)) = 1
            /\ \A id \in StreamsOf(pid) :
                  /\ streams[id].sender = proposals[pid].sender
                  /\ streams[id].start_time = proposals[pid].start_time
                  /\ streams[id].curve_type = Linear
                  /\ ~streams[id].is_soulbound)
    /\ [][\A pid \in DOMAIN proposals :
            /\ (/\ proposals'[pid] # proposals[pid]
                /\ Len(proposals'[pid].approvers) < proposals'[pid].required_approvals)
               => UNCHANGED <<balance, streams, stream_count, origin, pulled, receipts>>
            /\ (~proposals[pid].executed /\ proposals'[pid].executed)
               => /\ stream_count' = stream_count + 1
                  /\ origin'[stream_count] = pid
                  /\ streams'[stream_count] = ProposalStream(proposals[pid])
                  /\ receipts'[stream_count].owner = proposals[pid].receiver
                  /\ balance' = Transfer(balance, proposals[pid].sender, Contract,
                                         proposals[pid].total_amount)
            /\ StreamsOf(pid)' # StreamsOf(pid)
               => ~proposals[pid].executed /\ proposals'[pid].executed]_vars

\* C11 witness: a proposal that needed two approvals, executed, next to one that
\* has an approval and still waits for its second.
C11_Witness ==
    \E pid \in DOMAIN proposals, other \in DOMAIN proposals :
        /\ proposals[pid].executed
        /\ proposals[pid].required_approvals = 2
        /\ \E id \in StreamsOf(pid) : streams[id] = ProposalStream(proposals[pid])
        /\ ~proposals[other].executed
        /\ Len(proposals[other].approvers) = 1

\* C12: when the approval that reaches the threshold cannot execute the proposal
\* (the proposer cannot pay total_amount), the call changes nothing: proposal,
\* approvers, streams, counters and balances stay as they were; and whenever the
\* proposer can pay, a threshold-reaching approval by a new approver, in time,
\* succeeds.
C12_FailedExecutionAborts ==
    /\ [](\A pid \in DOMAIN proposals, approver \in Addr :
            (/\ ~proposals[pid].executed
             /\ now <= proposals[pid].deadline
             /\ approver \notin Approvers(proposals[pid])
             /\ ReachesThreshold(proposals[pid]))
            => approve_proposal_result(pid, approver) =
                  IF CanTransfer(balance, proposals[pid].sender, proposals[pid].total_amount)
                  THEN "Ok" ELSE "Panic")
    /\ [][\A pid \in DOMAIN proposals, approver \in Addr :
            (/\ approve_proposal_result(pid, approver) = "Panic"
             /\ approve_proposal(pid, approver))
            => UNCHANGED vars]_vars

\* C12 witness: an approval that would reach the threshold while the proposer,
\* having paid for two streams, cannot pay; one of the streams can still be
\* cancelled for a refund and there is room for the proposal's stream.
C12_Witness ==
    \E pid \in DOMAIN proposals, approver \in Addr :
        /\ approve_proposal_result(pid, approver) = "Panic"
        /\ Len(proposals[pid].approvers) = 1
        /\ stream_count < MaxRefundStreams
        /\ \E id \in DOMAIN streams :
              /\ ~streams[id].cancelled
              /\ CancelToSender(streams[id]) >= proposals[pid].total_amount

\* A step in which a current Admin holder grants or revokes a role.
RoleCallByAdmin ==
    \E caller \in Addr, target \in Addr, role \in Role :
        /\ HasRole(caller, "Admin")
        /\ grant_role(caller, target, role) \/ revoke_role(caller, target, role)

\* C13: once initialize has stored an admin, no later step changes the stored
\* admin, and the role records change only by a grant_role or revoke_role call of
\* an address that holds the Admin role.
C13_InitializeOnce ==
    [][admin # NoAdmin =>
          /\ admin' = admin
          /\ roles' # roles => RoleCallByAdmin]_vars

\* A step in which top_up_stream succeeds on stream `id`.
TopUpStep(id) == streams'[id].total_amount > streams[id].total_amount

\* C14: a successful top_up_stream keeps the release rate
\* total_amount / (end_time - start_time), compared as fractions, and keeps
\* unlocked(stream, now) at the instant of the top-up.
C14_TopUpKeepsRate ==
    [][\A id \in DOMAIN streams :
          TopUpStep(id) =>
              /\ streams'[id].total_amount * (streams[id].end_time - streams[id].start_time)
                    = streams[id].total_amount
                        * (streams'[id].end_time - streams'[id].start_time)
              /\ calculate_unlocked(streams'[id], now) = calculate_unlocked(streams[id], now)]_vars

\* C15: top_up_stream on a stream whose flow rate is zero, by its sender with an
\* amount the sender can pay, returns one of the contract's errors.
C15_ZeroFlowRateIsAnError ==
    \A id \in DOMAIN streams :
        (/\ FlowRate(streams[id]) = 0
         /\ CanTransfer(balance, streams[id].sender, TopUpAmount))
        => top_up_stream_result(id, streams[id].sender, TopUpAmount) \in Error

\* The same stream had it never been paused.
NeverPaused(stream) ==
    [stream EXCEPT !.total_paused_duration = 0, !.is_paused = FALSE, !.paused_time = 0]

\* The scenario of the specification: 1000 over [0,100], paused at 20, resumed at 30.
ScenarioStream ==
    [NewStream("alice", "bob", 1000, 0, 100, Linear, FALSE)
        EXCEPT !.total_paused_duration = 30 - 20]

\* C16: pause_stream records the pause instant and unpause_stream adds the length
\* of the pause to total_paused_duration; for a Linear stream that is running
\* again, unlocked(stream, t) at every time t from now on equals what the
\* never-paused stream has at t - total_paused_duration, whatever number of
\* pauses made up total_paused_duration; the scenario stream has 600 at 70.
C16_PausedTimeExcluded ==
    /\ [](\A id \in DOMAIN streams :
            (streams[id].curve_type = Linear /\ ~streams[id].is_paused)
            => \A t \in now .. (AdjustedEnd(streams[id]) + 1) :
                  /\ t >= streams[id].total_paused_duration
                  /\ \A overflow_checks \in Builds :
                        ~calculate_unlocked_panics(streams[id], t, overflow_checks)
                  /\ calculate_unlocked(streams[id], t)
                        = calculate_unlocked(NeverPaused(streams[id]),
                                             t - streams[id].total_paused_duration))
    /\ [](calculate_unlocked(ScenarioStream, 70) = 600)
    /\ [][\A id \in DOMAIN streams :
            /\ (~streams[id].is_paused /\ streams'[id].is_paused)
               => streams'[id].paused_time = now
            /\ (streams[id].is_paused /\ ~streams'[id].is_paused)
               => streams'[id].total_paused_duration
                     = streams[id].total_paused_duration + (now - streams[id].paused_time)]_vars

\* C16 witness: a Linear stream paused after its start for two units or more,
\* running again and partly vested, with part of it withdrawn.
C16_Witness ==
    \E id \in DOMAIN streams :
        /\ streams[id].curve_type = Linear
        /\ ~streams[id].is_paused
        /\ ~streams[id].cancelled
        /\ streams[id].total_paused_duration >= 2
        /\ streams[id].withdrawn_amount > 0
        /\ calculate_unlocked(streams[id], now) > streams[id].withdrawn_amount
        /\ calculate_unlocked(streams[id], now) < streams[id].total_amount

\* C17: no step lowers a stream's withdrawn_amount, and withdrawn_amount never
\* exceeds total_amount.
C17_WithdrawnMonotone ==
    /\ [](\A id \in DOMAIN streams :
            streams[id].withdrawn_amount <= streams[id].total_amount)
    /\ [][\A id \in DOMAIN streams :
            streams'[id].withdrawn_amount >= streams[id].withdrawn_amount]_vars

\* What the sender-only calls other than top_up_stream answer to `caller`
\* when caller is not the sender of stream `id`.
SenderOnlyCallsRefuse(id, caller) ==
    /\ pause_stream_result(id, caller) = "Unauthorized"
    /\ unpause_stream_result(id, caller) = "Unauthorized"
    /\ transfer_receiver_result(id, caller) =
          IF streams[id].is_soulbound THEN "StreamIsSoulbound" ELSE "Unauthorized"

\* What withdraw and cancel answer to callers that are not entitled to call them.
ReceiverCallsRefuse(id, caller) ==
    \A overflow_checks \in Builds :
        /\ caller # streams[id].receiver
           => withdraw_result(id, caller, overflow_checks) = "Unauthorized"
        /\ caller \notin {streams[id].sender, streams[id].receiver}
           => cancel_result(id, caller, overflow_checks) = "Unauthorized"

\* A step that is a call on stream `id` by a party entitled to make it.
AuthorizedCall(id) ==
    \/ \E amount \in {0, TopUpAmount} : top_up_stream(id, streams[id].sender, amount)
    \/ pause_stream(id, streams[id].sender)
    \/ unpause_stream(id, streams[id].sender)
    \/ \E new_receiver \in NewReceivers :
          transfer_receiver(id, streams[id].sender, new_receiver)
    \/ \E overflow_checks \in Builds : withdraw(id, streams[id].receiver, overflow_checks)
    \/ \E overflow_checks \in Builds, caller \in {streams[id].sender, streams[id].receiver} :
          cancel(id, caller, overflow_checks)

\* A stream's record, and the tokens moved for it, change only in a call by an
\* entitled party.
OnlyAuthorizedCallsTakeEffect ==
    [][\A id \in DOMAIN streams :
          StreamFacts(id)' # StreamFacts(id) => AuthorizedCall(id)]_vars

\* C18 (as stated): a stream changes only in a call by its sender (top-up, pause,
\* unpause, transfer_receiver), its current receiver (withdraw) or either (cancel);
\* every call by another address returns Unauthorized, StreamIsSoulbound for
\* transfer_receiver on a soulbound stream.
C18_OnlyAuthorizedCalls ==
    /\ [](\A id \in DOMAIN streams, caller \in Addr :
            /\ caller # streams[id].sender
               => /\ SenderOnlyCallsRefuse(id, caller)
                  /\ \A amount \in {0, TopUpAmount} :
                        top_up_stream_result(id, caller, amount) = "Unauthorized"
            /\ ReceiverCallsRefuse(id, caller))
    /\ OnlyAuthorizedCallsTakeEffect

\* C18 (amended): as stated, except that top_up_stream with amount <= 0 returns
\* InvalidAmount to every caller.
C18_OnlyAuthorizedCallsValidAmount ==
    /\ [](\A id \in DOMAIN streams, caller \in Addr :
            /\ caller # streams[id].sender
               => /\ SenderOnlyCallsRefuse(id, caller)
                  /\ \A amount \in {0, TopUpAmount} :
                        top_up_stream_result(id, caller, amount) =
                            IF amount <= 0 THEN "InvalidAmount" ELSE "Unauthorized"
            /\ ReceiverCallsRefuse(id, caller))
    /\ OnlyAuthorizedCallsTakeEffect

\* C18 witness: a stream handed over to a new receiver with an amount ready to
\* withdraw, which the former receiver would otherwise collect.
C18_Witness ==
    \E id \in DOMAIN streams :
        /\ streams[id].receiver = "carol"
        /\ receipts[id].owner = "bob"
        /\ ~streams[id].cancelled
        /\ ~streams[id].is_paused
        /\ ToWithdraw(streams[id]) > 0

\* The scenario of the specification: 100 over [0,10], topped up by 50.
ScenarioTopUp == ToppedUp(NewStream("alice", "bob", 100, 0, 10, Linear, FALSE), 50)

\* C19: a step in which top_up_stream succeeds with amount a on a stream with
\* total_amount T over [s, e] happens before e, moves a from the sender into
\* custody and stores total_amount = T + a and end_time = e + (a div (T div (e - s))),
\* every other field as it was (100 over [0,10] topped up by 50 ends at 15 with
\* 150); the sender's call on a stream that is not cancelled returns StreamEnded
\* when now >= end_time, and every call with amount <= 0 returns InvalidAmount.
C19_TopUpFormula ==
    /\ [][\A id \in DOMAIN streams :
            TopUpStep(id) =>
                LET stream == streams[id]
                    a == streams'[id].total_amount - stream.total_amount
                IN  /\ now < stream.end_time
                    /\ streams'[id] =
                          [stream EXCEPT
                              !.total_amount = stream.total_amount + a,
                              !.end_time = stream.end_time
                                  + (a \div (stream.total_amount
                                                \div (stream.end_time - stream.start_time)))]
                    /\ balance'[Contract] = balance[Contract] + a
                    /\ balance'[stream.sender] = balance[stream.sender] - a]_vars
    /\ [](ScenarioTopUp.end_time = 15 /\ ScenarioTopUp.total_amount = 150)
    /\ [](\A id \in StreamIds, caller \in Addr :
            /\ top_up_stream_result(id, caller, 0) = "InvalidAmount"
            /\ (/\ Stored(id)
                /\ caller = streams[id].sender
                /\ ~streams[id].cancelled
                /\ now >= streams[id].end_time)
               => top_up_stream_result(id, caller, TopUpAmount) = "StreamEnded")

\* C19 witness: a stream that top-ups have made larger and longer than any stream
\* is created, part withdrawn, still before its end and with a sender able to pay.
C19_Witness ==
    \E id \in DOMAIN streams :
        /\ streams[id].total_amount > MaxVestAmount
        /\ streams[id].end_time - streams[id].start_time > MaxVestDuration
        /\ streams[id].withdrawn_amount > 0
        /\ top_up_stream_result(id, streams[id].sender, TopUpAmount) = "Ok"

\* C20: while a stream is paused, under either build, calculate_unlocked returns
\* at every time from paused_time on the amount it returns at paused_time, and
\* until the stream is cancelled a cancel by its sender or its receiver succeeds.
C20_FrozenWhilePaused ==
    \A id \in DOMAIN streams, overflow_checks \in Builds :
        streams[id].is_paused
        => /\ \A t \in streams[id].paused_time .. (AdjustedEnd(streams[id]) + 1) :
                 /\ ~calculate_unlocked_panics(streams[id], t, overflow_checks)
                 /\ calculate_unlocked(streams[id], t)
                       = calculate_unlocked(streams[id], streams[id].paused_time)
           /\ ~streams[id].cancelled
              => \A caller \in {streams[id].sender, streams[id].receiver} :
                    cancel_result(id, caller, overflow_checks) = "Ok"

\* C21: pause_stream by the sender on a paused stream and unpause_stream by the
\* sender on a running stream return Ok and change nothing; paused_time is kept
\* for as long as the stream stays paused, total_paused_duration for as long as
\* it stays running; and a stream that is not paused has paused_time = 0.
C21_RepeatedPauseIsNoOp ==
    /\ [](\A id \in DOMAIN streams :
            /\ ~streams[id].is_paused => streams[id].paused_time = 0
            /\ (streams[id].is_paused /\ ~streams[id].cancelled)
               => pause_stream_result(id, streams[id].sender) = "Ok"
            /\ (~streams[id].is_paused /\ ~streams[id].cancelled)
               => unpause_stream_result(id, streams[id].sender) = "Ok")
    /\ [][\A id \in DOMAIN streams :
            /\ (streams[id].is_paused /\ pause_stream(id, streams[id].sender))
               => UNCHANGED vars
            /\ (~streams[id].is_paused /\ unpause_stream(id, streams[id].sender))
               => UNCHANGED vars
            /\ (streams[id].is_paused /\ streams'[id].is_paused)
               => streams'[id].paused_time = streams[id].paused_time
            /\ (~streams[id].is_paused /\ ~streams'[id].is_paused)
               => streams'[id].total_paused_duration
                     = streams[id].total_paused_duration]_vars

\* C21 witness: a stream paused a second time, some time into that pause, so
\* that another pause would move paused_time and an unpause is still to come.
C21_Witness ==
    \E id \in DOMAIN streams :
        /\ streams[id].is_paused
        /\ ~streams[id].cancelled
        /\ streams[id].total_paused_duration > 0
        /\ now > streams[id].paused_time
        /\ streams[id].paused_time > streams[id].start_time

\* A step in which the entry point waiting in its transfer resumes and finishes.
ReturnStep == InCall /\ frame'.op = "none"

\* Every token a running stream has paid to its receiver is recorded as withdrawn.
PaidOutIsRecorded ==
    \A id \in DOMAIN streams :
        ~streams[id].cancelled => paid_out[id] = streams[id].withdrawn_amount

\* C22: when withdraw, cancel or top_up_stream resumes after a transfer during
\* which other calls ran, it keeps what those calls stored: top_up_stream adds
\* its amount and its extension to the record as it is in storage then, withdraw
\* and cancel store nothing more; and no amount is paid out twice.
C22_NoStaleWriteBack ==
    /\ []PaidOutIsRecorded
    /\ [][ReturnStep =>
            IF frame.op = "top_up_stream"
            THEN streams' = [streams EXCEPT
                    ![frame.stream_id] =
                        [@ EXCEPT !.total_amount = @ + frame.amount,
                                  !.end_time = streams'[frame.stream_id].end_time]]
            ELSE \/ streams' = streams
                 \/ frame.op = "cancel" /\ ~CanTransfer(balance, Contract, frame.to_sender)]_vars

\* A stream that is neither cancelled nor paused, at or after its adjusted end.
PastAdjustedEnd(stream) ==
    /\ ~stream.cancelled
    /\ ~stream.is_paused
    /\ now >= AdjustedEnd(stream)

\* withdraw by the receiver past the adjusted end pays all that is left.
WithdrawCompletesVesting ==
    \A id \in DOMAIN streams, overflow_checks \in Builds :
        PastAdjustedEnd(streams[id]) =>
            LET result == withdraw_result(id, streams[id].receiver, overflow_checks)
            IN  \/ /\ result = "Ok"
                   /\ ToWithdraw(streams[id]) =
                          streams[id].total_amount - streams[id].withdrawn_amount
                \/ /\ result = "InsufficientBalance"
                   /\ streams[id].withdrawn_amount = streams[id].total_amount

\* The stream is left running for good, with an adjusted end the clock reaches.
LeftRunning(id) ==
    /\ Stored(id)
    /\ ~streams[id].cancelled
    /\ ~streams[id].is_paused
    /\ AdjustedEnd(streams[id]) <= MaxLiveTime

FullyWithdrawn(id) ==
    Stored(id) /\ streams[id].withdrawn_amount = streams[id].total_amount

\* C23: for a stream neither cancelled nor paused, the receiver's withdraw at
\* any now >= end_time + total_paused_duration succeeds and leaves
\* withdrawn_amount = total_amount, or fails with InsufficientBalance when that
\* already holds; so every stream that is eventually left running for good is
\* eventually fully withdrawn.
C23_FullVestingReachable ==
    /\ []WithdrawCompletesVesting
    /\ \A id \in 0 .. MaxLiveStreams - 1 : <>[]LeftRunning(id) => <>FullyWithdrawn(id)
====
